---- MODULE Spec2Model ----
(***************************************************************************)
(* State-machine model of RegistryCreator                                  *)
(* (src/src/pipeline_components/registry_creator.py): the batch pipeline   *)
(* create_registry_for_PV_installations and the methods it calls.          *)
(*                                                                         *)
(* Geometry.  A polygon is a finite set of atomic regions ("pieces").  A   *)
(* piece records its area, the coordinates of its centroid (in half units, *)
(* so that they are integers) and the set of rooftops whose polygon        *)
(* contains it.  Areas and area-weighted centroids are additive over       *)
(* disjoint regions, so the intersection of an installation with rooftop r *)
(* is the set of its pieces covered by r and the difference is the set of  *)
(* its pieces covered by no rooftop.                                       *)
(*                                                                         *)
(* Numbers.  Areas are exact integers; quotients (percentage_intersect,    *)
(* capacities) are exact fractions [n, d]; 1/cos(Tilt) is a fixed-point    *)
(* table in thousandths.  Floating-point rounding is not modelled.         *)
(*                                                                         *)
(* Columns Area, Building_I and RooftopTyp of the rooftop layer and the    *)
(* column class of the PV layer are carried by the code exactly as Azimuth *)
(* is and are left out.                                                    *)
(***************************************************************************)
EXTENDS Integers, Sequences, FiniteSets, TLC

VARIABLES
    pc,                                   \* next step of create_registry_for_PV_installations
    raw_PV_polygons_gdf,                  \* dissolved and exploded PV polygons
    rooftop_gdf,                          \* rooftop layer
    raw_PV_installations_gdf,
    raw_PV_installations_on_rooftop,
    raw_PV_installations_off_rooftop,
    raw_overhanging_PV_installations,
    enriched,                             \* raw_overhanging_pv_installations_enriched_with_closest_rooftop_data
    group_intersection_id,
    corrected_PV_installations_on_rooftop,
    rooftop_registry,
    address_registry

vars == <<pc, raw_PV_polygons_gdf, rooftop_gdf, raw_PV_installations_gdf,
          raw_PV_installations_on_rooftop, raw_PV_installations_off_rooftop,
          raw_overhanging_PV_installations, enriched,
          group_intersection_id, corrected_PV_installations_on_rooftop,
          rooftop_registry, address_registry>>

-----------------------------------------------------------------------------
(* Bounds of the input space *)

\* largest area of a piece in the enumerated layouts
MaxArea == 3

\* largest horizontal shift of the second installation when it lies in the row above
MaxShift == 0

\* the rooftops of the rooftop layer, by row position
Roofs == {1, 2}

NaN == "NaN"

-----------------------------------------------------------------------------
(* Generic helpers *)

RECURSIVE SeqSum(_)
SeqSum(s) == IF s = <<>> THEN 0 ELSE Head(s) + SeqSum(Tail(s))

RECURSIVE Flatten(_)
Flatten(ss) == IF ss = <<>> THEN <<>> ELSE Head(ss) \o Flatten(Tail(ss))

\* exact fractions
Frac(n, d) == [n |-> n, d |-> d]
FracAdd(a, b) == [n |-> a.n * b.d + b.n * a.d, d |-> a.d * b.d]
FracGT(a, b) == a.n * b.d > b.n * a.d
FracLT(a, b) == a.n * b.d < b.n * a.d
FracLE(a, b) == a.n * b.d <= b.n * a.d

RECURSIVE FracSum(_)
FracSum(s) == IF s = <<>> THEN Frac(0, 1) ELSE FracAdd(Head(s), FracSum(Tail(s)))

-----------------------------------------------------------------------------
(* Geometry *)

\* shapely .area (after to_crs(epsg=5243))
RECURSIVE GeomArea(_)
GeomArea(g) ==
    IF g = {} THEN 0
    ELSE LET p == CHOOSE q \in g : TRUE IN p.area + GeomArea(g \ {p})

RECURSIVE MomentX(_)
MomentX(g) ==
    IF g = {} THEN 0
    ELSE LET p == CHOOSE q \in g : TRUE IN p.area * p.cx + MomentX(g \ {p})

RECURSIVE MomentY(_)
MomentY(g) ==
    IF g = {} THEN 0
    ELSE LET p == CHOOSE q \in g : TRUE IN p.area * p.cy + MomentY(g \ {p})

RECURSIVE GCD(_, _)
GCD(a, b) == IF b = 0 THEN a ELSE GCD(b, a % b)

\* shapely .centroid: the area-weighted mean (sx / w, sy / w) of the piece
\* centroids, in lowest terms
Centroid(g) ==
    LET c == GCD(GCD(MomentX(g), MomentY(g)), GeomArea(g))
    IN  [sx |-> MomentX(g) \div c, sy |-> MomentY(g) \div c, w |-> GeomArea(g) \div c]

\* squared Euclidean distance between two centroids, as a fraction
Dist2(a, b) ==
    LET dx == a.sx * b.w - b.sx * a.w
        dy == a.sy * b.w - b.sy * a.w
    IN  Frac(dx * dx + dy * dy, (a.w * b.w) * (a.w * b.w))

-----------------------------------------------------------------------------
(* Inputs: the PV polygons left by dissolve/explode and the rooftop layer *)

\* An installation laid out along a row: a part of length `on` under the
\* rooftops `cover`, a part of length `span` under rooftop 2 only, and an
\* off-rooftop part of length `off`.
Descriptors ==
    {d \in [on : 0..MaxArea, cover : (SUBSET Roofs) \ {{}}, span : {0}, off : 0..MaxArea] :
        /\ d.on + d.off > 0
        /\ d.on = 0 => d.cover = {1}}

Length(d) == d.on + d.span + d.off

\* the polygon of descriptor d with its left end at X (half units) in the row centred at Y
PolygonOf(d, X, Y) ==
    (IF d.on > 0
        THEN {[area |-> d.on, cx |-> X + d.on, cy |-> Y, cover |-> d.cover]}
        ELSE {})
    \cup
    (IF d.span > 0
        THEN {[area |-> d.span, cx |-> X + 2 * d.on + d.span, cy |-> Y, cover |-> {2}]}
        ELSE {})
    \cup
    (IF d.off > 0
        THEN {[area |-> d.off, cx |-> X + 2 * (d.on + d.span) + d.off, cy |-> Y,
               cover |-> {}]}
        ELSE {})

\* where the second polygon starts: half a unit to the right of the first one,
\* or in the row above it, shifted by one of `shifts` units
Placements(d1, shifts) ==
    {[X |-> 2 * Length(d1) + 1, Y |-> 1]} \cup {[X |-> 2 * s, Y |-> 4] : s \in shifts}

\* one polygon, or two
LayoutsOf(D1, D2, shifts) ==
    {<<PolygonOf(d1, 0, 1)>> : d1 \in D1}
    \cup UNION {{<<PolygonOf(d1, 0, 1), PolygonOf(d2, pl.X, pl.Y)>> :
                    d2 \in D2, pl \in Placements(d1, shifts)} : d1 \in D1}

GridLayouts == LayoutsOf(Descriptors, Descriptors, 0..MaxShift)

\* the installations of the end-to-end scenarios: wholly on one rooftop (100),
\* split into 70 on the rooftop and 30 overhanging, or spanning both rooftops
Whole(r) == [on |-> 100, cover |-> {r}, span |-> 0, off |-> 0]
Split(r) == [on |-> 70, cover |-> {r}, span |-> 0, off |-> 30]
Spanning == [on |-> 40, cover |-> {1}, span |-> 40, off |-> 20]

ScenarioLayouts ==
    LayoutsOf({Whole(1), Split(1), Spanning},
              {Whole(1), Split(1), Whole(2), Split(2)}, {})

TiltValues == {0, 29, 30, 49, 50, 85}

Address(street, number, postal, city) ==
    [Street |-> street, StreetNumb |-> number, PostalCode |-> postal, City |-> city]

MainSt == Address("Main St", "5", "00000", "X")
SideSt == Address("Side St", "7", "00000", "X")

\* MainSt with one component missing
Incomplete ==
    {[MainSt EXCEPT ![f] = NaN] : f \in {"Street", "StreetNumb", "PostalCode", "City"}}

Rooftop(id, tilt, azimuth, addr) ==
    [RoofTopID |-> id, Tilt |-> tilt, Azimuth |-> azimuth] @@ addr

DefaultRooftops ==
    <<Rooftop("R1", 30, 180, MainSt), Rooftop("R2", 0, 90, SideSt)>>

ScenarioRooftops ==
    {<<Rooftop("R1", t, 180, MainSt), Rooftop(id, 30, 90, a)>> :
        t \in TiltValues, id \in {"R1", "R2", NaN}, a \in {MainSt, SideSt} \cup Incomplete}

Init ==
    /\ \/ /\ raw_PV_polygons_gdf \in GridLayouts
          /\ rooftop_gdf = DefaultRooftops
       \/ /\ raw_PV_polygons_gdf \in ScenarioLayouts
          /\ rooftop_gdf \in ScenarioRooftops
    /\ pc = "aggregate"
    /\ raw_PV_installations_gdf = <<>>
    /\ raw_PV_installations_on_rooftop = <<>>
    /\ raw_PV_installations_off_rooftop = <<>>
    /\ raw_overhanging_PV_installations = <<>>
    /\ enriched = <<>>
    /\ group_intersection_id = <<>>
    /\ corrected_PV_installations_on_rooftop = <<>>
    /\ rooftop_registry = <<>>
    /\ address_registry = <<>>

-----------------------------------------------------------------------------
(* aggregate_raw_PV_polygons_to_raw_PV_installations *)

\* "polygon_" + str(id), id the row position counted from 0
PolygonName == <<"polygon_0", "polygon_1">>

Identifier(id) == PolygonName[id + 1]

aggregate_raw_PV_polygons_to_raw_PV_installations ==
    /\ pc = "aggregate"
    /\ raw_PV_installations_gdf' =
          [k \in DOMAIN raw_PV_polygons_gdf |->
              [geometry   |-> raw_PV_polygons_gdf[k],
               raw_area   |-> GeomArea(raw_PV_polygons_gdf[k]),
               identifier |-> Identifier(k - 1)]]
    /\ pc' = "overlay"
    /\ UNCHANGED <<raw_PV_polygons_gdf, rooftop_gdf, raw_PV_installations_on_rooftop,
                   raw_PV_installations_off_rooftop, raw_overhanging_PV_installations,
                   enriched, group_intersection_id,
                   corrected_PV_installations_on_rooftop, rooftop_registry,
                   address_registry>>

-----------------------------------------------------------------------------
(* overlay_raw_PV_installations_and_rooftops *)

\* mutant of Intersection: the installation is joined to the rooftop, not clipped by it
Unclipped(g, r) == IF \E p \in g : r \in p.cover THEN g ELSE {}

\* the part of polygon g inside the polygon of rooftop r
Intersection(g, r) == {p \in g : r \in p.cover}

\* the part of polygon g outside every rooftop polygon
Difference(g) == {p \in g : p.cover = {}}

\* mutant of IntersectionRows: a row for every rooftop, empty intersections included
IntersectionRowsEveryRooftop(inst) ==
    [r \in DOMAIN rooftop_gdf |->
        [identifier |-> inst.identifier,
         raw_area   |-> inst.raw_area,
         geometry   |-> {p \in inst.geometry : r \in p.cover},
         area_inter |-> GeomArea({p \in inst.geometry : r \in p.cover})]
        @@ rooftop_gdf[r]]

\* gpd.overlay(how="intersection"): the rows of installation inst, one per
\* rooftop with a non-empty intersection, carrying both layers' attributes
IntersectionRows(inst) ==
    LET row(r) == [identifier |-> inst.identifier,
                   raw_area   |-> inst.raw_area,
                   geometry   |-> Intersection(inst.geometry, r),
                   area_inter |-> GeomArea(Intersection(inst.geometry, r))]
                  @@ rooftop_gdf[r]
        hit(r) == Intersection(inst.geometry, r) # {}
    IN  Flatten([r \in DOMAIN rooftop_gdf |-> IF hit(r) THEN <<row(r)>> ELSE <<>>])

\* gpd.overlay(how="difference"): the row of installation inst, if anything is left of it
DifferenceRows(inst) ==
    IF Difference(inst.geometry) = {} THEN <<>>
    ELSE <<[identifier |-> inst.identifier,
            raw_area   |-> inst.raw_area,
            geometry   |-> Difference(inst.geometry),
            area_diff  |-> GeomArea(Difference(inst.geometry))]>>

\* `corrupt` is the position of a difference row that a corrupted rooftop
\* geometry left without identifier (0: none)
overlay_raw_PV_installations_and_rooftops ==
    /\ pc = "overlay"
    /\ raw_PV_installations_on_rooftop' =
          Flatten([k \in DOMAIN raw_PV_installations_gdf |->
                      IntersectionRows(raw_PV_installations_gdf[k])])
    /\ LET off == Flatten([k \in DOMAIN raw_PV_installations_gdf |->
                              DifferenceRows(raw_PV_installations_gdf[k])])
       IN  \E corrupt \in 0..Len(off) :
              raw_PV_installations_off_rooftop' =
                 [k \in DOMAIN off |->
                     IF k = corrupt THEN [off[k] EXCEPT !.identifier = NaN] ELSE off[k]]
    /\ pc' = "identify"
    /\ UNCHANGED <<raw_PV_polygons_gdf, rooftop_gdf, raw_PV_installations_gdf,
                   raw_overhanging_PV_installations, enriched, group_intersection_id,
                   corrected_PV_installations_on_rooftop, rooftop_registry,
                   address_registry>>

-----------------------------------------------------------------------------
(* identify_raw_overhanging_PV_installations *)

identify_raw_overhanging_PV_installations ==
    /\ pc = "identify"
    /\ LET checked == [k \in DOMAIN raw_PV_installations_off_rooftop |->
                          raw_PV_installations_off_rooftop[k] @@
                          [checker |-> raw_PV_installations_off_rooftop[k].raw_area
                                       - raw_PV_installations_off_rooftop[k].area_diff]]
           NotFree(row) == row.checker > 0
           NotNull(row) == row.identifier # NaN
           kept == SelectSeq(SelectSeq(checked, NotFree), NotNull)
       IN  /\ raw_PV_installations_off_rooftop' = checked
           /\ raw_overhanging_PV_installations' =
                 [k \in DOMAIN kept |->
                     [area_diff  |-> kept[k].area_diff,
                      identifier |-> kept[k].identifier,
                      geometry_overhanging_polygon |-> kept[k].geometry,
                      geometry   |-> Centroid(kept[k].geometry)]]
    /\ pc' = "filter"
    /\ UNCHANGED <<raw_PV_polygons_gdf, rooftop_gdf, raw_PV_installations_gdf,
                   raw_PV_installations_on_rooftop, enriched, group_intersection_id,
                   corrected_PV_installations_on_rooftop, rooftop_registry,
                   address_registry>>

-----------------------------------------------------------------------------
(* filter_raw_overhanging_PV_installations *)

\* cut-off geometries must be larger than this many square metres
MinOverhangArea == 1

\* mutant of LargerThanOneSqm: >= in place of >
AtLeastOneSqm(row) == row.area_diff >= MinOverhangArea

\* line 247
LargerThanOneSqm(row) == row.area_diff > MinOverhangArea

filter_raw_overhanging_PV_installations ==
    /\ pc = "filter"
    /\ LET rooftop_pv_ids ==
              {raw_PV_installations_on_rooftop[k].identifier :
                  k \in DOMAIN raw_PV_installations_on_rooftop}
           Matches(row) == row.identifier \in rooftop_pv_ids
       IN  raw_overhanging_PV_installations' =
              SelectSeq(SelectSeq(raw_overhanging_PV_installations, Matches),
                        LargerThanOneSqm)
    /\ pc' = "append"
    /\ UNCHANGED <<raw_PV_polygons_gdf, rooftop_gdf, raw_PV_installations_gdf,
                   raw_PV_installations_on_rooftop, raw_PV_installations_off_rooftop,
                   enriched, group_intersection_id,
                   corrected_PV_installations_on_rooftop, rooftop_registry,
                   address_registry>>

-----------------------------------------------------------------------------
(* _ckdnearest, enrich_raw_overhanging_pv_installations_with_closest_rooftop_attributes
   and append_raw_overhanging_PV_installations_to_intersected_installations *)

Project(row, cols) == [c \in cols |-> row[c]]

Columns ==
    {"raw_area", "identifier", "Azimuth", "City", "PostalCode", "RoofTopID",
     "Street", "StreetNumb", "Tilt", "area_inter", "geometry"}

\* mutant of Nearest: the nearest among the fragments of the overhang's own
\* installation
NearestOfSameIdentifier(a, gdB) ==
    {j \in DOMAIN gdB :
        /\ gdB[j].identifier = a.identifier_diff
        /\ \A j2 \in DOMAIN gdB :
              gdB[j2].identifier = a.identifier_diff =>
                  FracLE(Dist2(a.geometry, gdB[j].geometry),
                         Dist2(a.geometry, gdB[j2].geometry))}

\* btree.query(nA, k=1): the positions in gdB of the centroids nearest to the
\* centroid of gdA's row a; which one of several equally near centroids the
\* tree reports is not specified
Nearest(a, gdB) ==
    {j \in DOMAIN gdB :
        \A j2 \in DOMAIN gdB :
            FracLE(Dist2(a.geometry, gdB[j].geometry), Dist2(a.geometry, gdB[j2].geometry))}

\* the row _ckdnearest builds for gdA's row a and the row b of gdB at the position
\* the query returned: a's columns, b's columns except geometry, and the distance
\* (kept squared)
_ckdnearest(a, b) ==
    a @@ Project(b, (DOMAIN b) \ {"geometry"})
      @@ [dist_in_degrees |-> Dist2(a.geometry, b.geometry)]

\* mutant of Enrich: the overhang's area is added to the matched fragment's
EnrichAdding(row) ==
    [(row @@ [checker |-> row.identifier_diff = row.identifier])
        EXCEPT !.area_inter = row.area_inter + row.area_diff]

\* mutant of Enrich: area_inter is not overwritten
EnrichKeeping(row) == row @@ [checker |-> row.identifier_diff = row.identifier]

\* lines 259-298: the consistency flag, and area_inter overwritten by area_diff
\* (helper_x, helper_y and dist_in_meters, a geodesic distance, are left out)
Enrich(row) ==
    [(row @@ [checker |-> row.identifier_diff = row.identifier])
        EXCEPT !.area_inter = row.area_diff]

\* lines 300-323: the columns kept, geometry_overhanging_polygon renamed to geometry
Resolved(row) ==
    Project([row EXCEPT !.geometry = row.geometry_overhanging_polygon], Columns)

append_raw_overhanging_PV_installations_to_intersected_installations ==
    /\ pc = "append"
    /\ LET gdA == [k \in DOMAIN raw_overhanging_PV_installations |->
                      LET r == raw_overhanging_PV_installations[k]
                      IN  [area_diff       |-> r.area_diff,
                           identifier_diff |-> r.identifier,
                           geometry        |-> r.geometry,
                           geometry_overhanging_polygon |-> r.geometry_overhanging_polygon]]
           gdB == [k \in DOMAIN raw_PV_installations_on_rooftop |->
                      LET r == raw_PV_installations_on_rooftop[k]
                      IN  [r EXCEPT !.geometry = Centroid(r.geometry)] @@
                          [geometry_intersected_polygon |-> r.geometry,
                           centroid_intersect           |-> Centroid(r.geometry)]]
       IN  IF Len(gdA) = 0
           THEN \* cKDTree's query rejects the empty array of overhang centroids:
                \* the exception ends the run
                /\ pc' = "aborted"
                /\ UNCHANGED <<raw_overhanging_PV_installations,
                               raw_PV_installations_on_rooftop, enriched>>
           ELSE \E idx \in [DOMAIN gdA -> DOMAIN gdB] :
                /\ \A k \in DOMAIN gdA : idx[k] \in Nearest(gdA[k], gdB)
                /\ enriched' = [k \in DOMAIN gdA |-> Enrich(_ckdnearest(gdA[k], gdB[idx[k]]))]
                /\ raw_overhanging_PV_installations' = gdA
                /\ raw_PV_installations_on_rooftop' =
                      [k \in DOMAIN gdB |->
                          Project([gdB[k] EXCEPT !.geometry =
                                       gdB[k].geometry_intersected_polygon], Columns)]
                      \o [k \in DOMAIN gdA |-> Resolved(enriched'[k])]
                /\ pc' = "address"
    /\ UNCHANGED <<raw_PV_polygons_gdf, rooftop_gdf, raw_PV_installations_gdf,
                   raw_PV_installations_off_rooftop, group_intersection_id,
                   corrected_PV_installations_on_rooftop, rooftop_registry,
                   address_registry>>

-----------------------------------------------------------------------------
(* create_registry_for_PV_installations, lines 509-518: the street address column *)

\* + on a column of strings: a missing operand makes the result missing
StrAdd(a, b) == IF a = NaN \/ b = NaN THEN NaN ELSE a \o b

Street_Address(row) ==
    StrAdd(StrAdd(StrAdd(StrAdd(StrAdd(StrAdd(row.Street, " "), row.StreetNumb), ", "),
                         row.PostalCode), ", "), row.City)

create_street_address_column ==
    /\ pc = "address"
    /\ raw_PV_installations_on_rooftop' =
          [k \in DOMAIN raw_PV_installations_on_rooftop |->
              raw_PV_installations_on_rooftop[k] @@
              [Street_Address |-> Street_Address(raw_PV_installations_on_rooftop[k])]]
    /\ pc' = "remove"
    /\ UNCHANGED <<raw_PV_polygons_gdf, rooftop_gdf, raw_PV_installations_gdf,
                   raw_PV_installations_off_rooftop, raw_overhanging_PV_installations,
                   enriched, group_intersection_id,
                   corrected_PV_installations_on_rooftop, rooftop_registry,
                   address_registry>>

-----------------------------------------------------------------------------
(* remove_erroneous_pv_polygons *)

\* the rows of s at the positions in K from k on, in order
RECURSIVE KeepAt(_, _, _)
KeepAt(s, K, k) ==
    IF k > Len(s) THEN <<>>
    ELSE (IF k \in K THEN <<s[k]>> ELSE <<>>) \o KeepAt(s, K, k + 1)

\* DataFrame.drop of the rows at the positions in K
Drop(s, K) == KeepAt(s, (DOMAIN s) \ K, 1)

Column(s, c) == [k \in DOMAIN s |-> s[k][c]]

\* groupby aggregation "first" of a column of strings: the first value that is
\* not missing
RECURSIVE First(_)
First(s) ==
    IF s = <<>> THEN NaN
    ELSE IF Head(s) # NaN THEN Head(s) ELSE First(Tail(s))

\* the columns that may hold a missing value
Nullable ==
    {"identifier", "RoofTopID", "Street", "StreetNumb", "PostalCode", "City",
     "Street_Address"}

\* "first" of column c over the rows of a group
FirstOf(members, c) ==
    IF c \in Nullable THEN First(Column(members, c)) ELSE members[1][c]

\* the identifiers in the order groupby sorts them
SortedIdentifiers == PolygonName

\* the keys of `sorted` that occur in column c of s: groupby drops missing keys
GroupKeys(s, c, sorted) ==
    LET Occurs(key) == key # NaN /\ \E k \in DOMAIN s : s[k][c] = key
    IN  SelectSeq(sorted, Occurs)

\* the rows of s whose column c is key
Group(s, c, key) ==
    LET Member(row) == row[c] = key
    IN  SelectSeq(s, Member)

\* summed percentage above which an identifier is erroneous: 1.1
Tolerance == Frac(11, 10)

GroupIntersectionId(rows) ==
    LET ids == GroupKeys(rows, "identifier", SortedIdentifiers)
    IN  [g \in DOMAIN ids |->
            LET members == Group(rows, "identifier", ids[g])
            IN  [identifier           |-> ids[g],
                 area_inter           |-> SeqSum(Column(members, "area_inter")),
                 Street               |-> First(Column(members, "Street")),
                 Street_Address       |-> First(Column(members, "Street_Address")),
                 raw_area             |-> members[1].raw_area,
                 City                 |-> First(Column(members, "City")),
                 PostalCode           |-> First(Column(members, "PostalCode")),
                 percentage_intersect |-> FracSum(Column(members, "percentage_intersect"))]]

\* the identifiers whose summed percentage_intersect exceeds the tolerance
Polygone(groups) ==
    {groups[g].identifier : g \in {h \in DOMAIN groups :
                                     FracGT(groups[h].percentage_intersect, Tolerance)}}

\* mutant of DropPartial: <= 1 in place of < 1
DropPartialOrComplete(rows, polygone) ==
    LET Partial(k) == /\ rows[k].identifier \in polygone
                      /\ FracLE(rows[k].percentage_intersect, Frac(1, 1))
    IN  Drop(rows, {k \in DOMAIN rows : Partial(k)})

\* mutant of DropPartial: the isin(polygone) condition is missing
DropPartialEverywhere(rows, polygone) ==
    LET Partial(k) == FracLT(rows[k].percentage_intersect, Frac(1, 1))
    IN  Drop(rows, {k \in DOMAIN rows : Partial(k)})

\* lines 415-423: drop the rows of erroneous identifiers that cover less than the raw area
DropPartial(rows, polygone) ==
    LET Partial(k) == /\ rows[k].identifier \in polygone
                      /\ FracLT(rows[k].percentage_intersect, Frac(1, 1))
    IN  Drop(rows, {k \in DOMAIN rows : Partial(k)})

\* Series.duplicated(): an earlier row has the same identifier
Duplicated(rows, k) == \E j \in 1..(k - 1) : rows[j].identifier = rows[k].identifier

\* mutant of DropDuplicates: the second drop is missing
DropNoDuplicates(rows, polygone) == rows

\* lines 425-433: drop the repeated rows of erroneous identifiers
DropDuplicates(rows, polygone) ==
    LET Repeated(k) == /\ rows[k].identifier \in polygone
                       /\ Duplicated(rows, k)
    IN  Drop(rows, {k \in DOMAIN rows : Repeated(k)})

remove_erroneous_pv_polygons ==
    /\ pc = "remove"
    /\ LET rows == [k \in DOMAIN raw_PV_installations_on_rooftop |->
                       raw_PV_installations_on_rooftop[k] @@
                       [percentage_intersect |->
                           Frac(raw_PV_installations_on_rooftop[k].area_inter,
                                raw_PV_installations_on_rooftop[k].raw_area)]]
           groups == GroupIntersectionId(rows)
       IN  /\ group_intersection_id' = groups
           /\ raw_PV_installations_on_rooftop' =
                 DropDuplicates(DropPartial(rows, Polygone(groups)), Polygone(groups))
    /\ pc' = "tilt"
    /\ UNCHANGED <<raw_PV_polygons_gdf, rooftop_gdf, raw_PV_installations_gdf,
                   raw_PV_installations_off_rooftop, raw_overhanging_PV_installations,
                   enriched, corrected_PV_installations_on_rooftop, rooftop_registry,
                   address_registry>>

-----------------------------------------------------------------------------
(* correct_area_by_tilt *)

\* rooftop tilts of at least this many degrees are taken to be erroneous
MaxTilt == 50

\* the tilt assumed for them and for flat roofs
StandardTilt == 30

\* mutant of ClipTilt: > in place of >=
ClipTiltAbove(tilt) ==
    LET clipped == IF tilt > MaxTilt THEN StandardTilt ELSE tilt
    IN  IF clipped = 0 THEN StandardTilt ELSE clipped

\* lines 443-448
ClipTilt(tilt) ==
    LET clipped == IF tilt >= MaxTilt THEN StandardTilt ELSE tilt
    IN  IF clipped = 0 THEN StandardTilt ELSE clipped

\* 1000 / cos(radians(tilt)), rounded, for the tilts of TiltValues
Secant(tilt) ==
    CASE tilt = 0  -> 1000
      [] tilt = 29 -> 1143
      [] tilt = 30 -> 1155
      [] tilt = 49 -> 1524
      [] tilt = 50 -> 1556
      [] tilt = 85 -> 11474

\* lines 454-460, in thousandths of a square metre
AreaTilted(row) == Secant(row.Tilt) * row.area_inter

correct_area_by_tilt ==
    /\ pc = "tilt"
    /\ LET clipped == [k \in DOMAIN raw_PV_installations_on_rooftop |->
                          [raw_PV_installations_on_rooftop[k] EXCEPT
                              !.Tilt = ClipTilt(@)]]
           tilted == [k \in DOMAIN clipped |->
                         clipped[k] @@ [area_tilted |-> AreaTilted(clipped[k])]]
       IN  \* both attributes name the same frame
           /\ raw_PV_installations_on_rooftop' = tilted
           /\ corrected_PV_installations_on_rooftop' = tilted
    /\ pc' = "registry"
    /\ UNCHANGED <<raw_PV_polygons_gdf, rooftop_gdf, raw_PV_installations_gdf,
                   raw_PV_installations_off_rooftop, raw_overhanging_PV_installations,
                   enriched, group_intersection_id, rooftop_registry, address_registry>>

-----------------------------------------------------------------------------
(* create_registry_for_PV_installations, lines 524-595: the two registries *)

\* the keys in the order groupby sorts them
SortedRoofTopIDs == <<"R1", "R2">>
SortedStreetAddresses == <<Street_Address(MainSt), Street_Address(SideSt)>>

RECURSIVE UnionAll(_)
UnionAll(s) == IF s = <<>> THEN {} ELSE Head(s) \cup UnionAll(Tail(s))

\* area / 6.5
Capacity(area) == Frac(10 * area, 65)

\* mutant of Dissolve: area_inter aggregated by "first"
DissolveFirstArea(rows, by, sorted, firsts) ==
    LET keys == GroupKeys(rows, by, sorted)
    IN  [g \in DOMAIN keys |->
            LET members == Group(rows, by, keys[g])
                area_inter == members[1].area_inter
                area_tilted == SeqSum(Column(members, "area_tilted"))
            IN  [c \in firsts |-> FirstOf(members, c)] @@
                [geometry            |-> UnionAll(Column(members, "geometry")),
                 area_inter          |-> area_inter,
                 area_tilted         |-> area_tilted,
                 capacity_not_tilted |-> Capacity(area_inter),
                 capacity_tilted     |-> Capacity(area_tilted)]]

\* GeoDataFrame.dissolve(by=..., aggfunc=...) with the "first" columns `firsts`,
\* followed by reset_index(drop=True) and the capacity columns
Dissolve(rows, by, sorted, firsts) ==
    LET keys == GroupKeys(rows, by, sorted)
    IN  [g \in DOMAIN keys |->
            LET members == Group(rows, by, keys[g])
                area_inter == SeqSum(Column(members, "area_inter"))
                area_tilted == SeqSum(Column(members, "area_tilted"))
            IN  [c \in firsts |-> FirstOf(members, c)] @@
                [geometry            |-> UnionAll(Column(members, "geometry")),
                 area_inter          |-> area_inter,
                 area_tilted         |-> area_tilted,
                 capacity_not_tilted |-> Capacity(area_inter),
                 capacity_tilted     |-> Capacity(area_tilted)]]

RooftopRegistry(rows) ==
    Dissolve(rows, "RoofTopID", SortedRoofTopIDs,
             {"Azimuth", "Tilt", "RoofTopID", "Street", "City", "PostalCode",
              "Street_Address"})

AddressRegistry(rows) ==
    Dissolve(rows, "Street_Address", SortedStreetAddresses,
             {"Street", "City", "PostalCode", "Street_Address"})

create_registries ==
    /\ pc = "registry"
    /\ rooftop_registry' = RooftopRegistry(corrected_PV_installations_on_rooftop)
    /\ address_registry' = AddressRegistry(corrected_PV_installations_on_rooftop)
    /\ pc' = "done"
    /\ UNCHANGED <<raw_PV_polygons_gdf, rooftop_gdf, raw_PV_installations_gdf,
                   raw_PV_installations_on_rooftop, raw_PV_installations_off_rooftop,
                   raw_overhanging_PV_installations, enriched, group_intersection_id,
                   corrected_PV_installations_on_rooftop>>

Next ==
    \/ aggregate_raw_PV_polygons_to_raw_PV_installations
    \/ overlay_raw_PV_installations_and_rooftops
    \/ identify_raw_overhanging_PV_installations
    \/ filter_raw_overhanging_PV_installations
    \/ append_raw_overhanging_PV_installations_to_intersected_installations
    \/ create_street_address_column
    \/ remove_erroneous_pv_polygons
    \/ correct_area_by_tilt
    \/ create_registries

Spec == Init /\ [][Next]_vars

-----------------------------------------------------------------------------
(* Properties of the Consistency Filter (remove_erroneous_pv_polygons) *)

\* the steps that follow remove_erroneous_pv_polygons
Filtered == pc \in {"tilt", "registry", "done"}

\* the identifiers the filter found erroneous
Flagged == Polygone(group_intersection_id)

\* the positions of the rows of identifier id
RowsOf(rows, id) == {k \in DOMAIN rows : rows[k].identifier = id}

RECURSIVE SumOver(_, _)
SumOver(rows, K) ==
    IF K = {} THEN Frac(0, 1)
    ELSE LET k == CHOOSE j \in K : TRUE
         IN  FracAdd(Frac(rows[k].area_inter, rows[k].raw_area), SumOver(rows, K \ {k}))

\* area_inter / raw_area summed over the rows of id is at most 1.1
WithinTolerance(rows, id) == FracLE(SumOver(rows, RowsOf(rows, id)), Frac(11, 10))

\* a resolved overhang: a row whose polygon lies outside every rooftop
IsOverhang(row) == \A p \in row.geometry : p.cover = {}

\* C1 as claimed: after the Consistency Filter every identifier that still has
\* rows has a summed percentage_intersect of at most 1.1.
C1_SumAtMostTolerance ==
    Filtered =>
        \A k \in DOMAIN raw_PV_installations_on_rooftop :
            WithinTolerance(raw_PV_installations_on_rooftop,
                            raw_PV_installations_on_rooftop[k].identifier)

\* C1 amended: after the Consistency Filter every identifier that still has rows
\* has a summed percentage_intersect of at most 1.1, unless it is left with a
\* single row that is a resolved overhang larger than 1.1 times the raw_area of
\* the installation it was attributed to.
C1_SumAtMostToleranceOrSingleOverhang ==
    Filtered =>
        \A k \in DOMAIN raw_PV_installations_on_rooftop :
            LET rows == raw_PV_installations_on_rooftop
                id == rows[k].identifier
            IN  \/ WithinTolerance(rows, id)
                \/ /\ RowsOf(rows, id) = {k}
                   /\ IsOverhang(rows[k])
                   /\ 10 * rows[k].area_inter > 11 * rows[k].raw_area

\* C1 witness: an erroneous identifier was pruned to one row within the tolerance
C1_Witness ==
    /\ Filtered
    /\ \E k \in DOMAIN raw_PV_installations_on_rooftop :
          LET rows == raw_PV_installations_on_rooftop
          IN  /\ rows[k].identifier \in Flagged
              /\ WithinTolerance(rows, rows[k].identifier)

\* C2 as claimed: every erroneous identifier keeps exactly one row.
C2_ExactlyOneRow ==
    Filtered =>
        \A id \in Flagged :
            Cardinality(RowsOf(raw_PV_installations_on_rooftop, id)) = 1

\* the rows of identifier id that cover at least the raw area
Complete(rows, id) == {k \in RowsOf(rows, id) : rows[k].area_inter >= rows[k].raw_area}

WithoutPercentage(row) == Project(row, (DOMAIN row) \ {"percentage_intersect"})

\* C2 amended: of every erroneous identifier the filter keeps the first row whose
\* percentage_intersect is at least 1 and no other row; when every row of the
\* identifier has a percentage_intersect below 1 it keeps none.
C2_FirstCompleteRowOrNone ==
    [][pc = "remove" =>
        \A id \in Polygone(group_intersection_id') :
            LET before == raw_PV_installations_on_rooftop
                after == raw_PV_installations_on_rooftop'
                complete == Complete(before, id)
            IN  IF complete = {}
                THEN RowsOf(after, id) = {}
                ELSE /\ Cardinality(RowsOf(after, id)) = 1
                     /\ \A k \in RowsOf(after, id) :
                           WithoutPercentage(after[k]) =
                              before[CHOOSE j \in complete : \A i \in complete : j <= i]
    ]_vars

\* C2 witness: an erroneous identifier lost a partial row and kept one row
C2_Witness ==
    /\ Filtered
    /\ \E g \in DOMAIN group_intersection_id :
          LET grp == group_intersection_id[g]
              kept == RowsOf(raw_PV_installations_on_rooftop, grp.identifier)
          IN  /\ grp.identifier \in Flagged
              /\ Cardinality(kept) = 1
              /\ \E k \in kept :
                    raw_PV_installations_on_rooftop[k].area_inter < grp.area_inter

\* C3: the filter leaves the rows of every identifier that is not erroneous as
\* they were (only the percentage_intersect column is added), in their order.
C3_UnflaggedUntouched ==
    [][pc = "remove" =>
        \A id \in {raw_PV_installations_on_rooftop[k].identifier :
                      k \in DOMAIN raw_PV_installations_on_rooftop}
                  \ Polygone(group_intersection_id') :
            LET Mine(row) == row.identifier = id
                before == SelectSeq(raw_PV_installations_on_rooftop, Mine)
                after == SelectSeq(raw_PV_installations_on_rooftop', Mine)
            IN  /\ Len(after) = Len(before)
                /\ \A k \in DOMAIN before : WithoutPercentage(after[k]) = before[k]
    ]_vars

\* C3 witness: an identifier with several rows was left alone while another
\* identifier was erroneous
C3_Witness ==
    /\ Filtered
    /\ Flagged # {}
    /\ \E g \in DOMAIN group_intersection_id :
          /\ group_intersection_id[g].identifier \notin Flagged
          /\ Cardinality(RowsOf(raw_PV_installations_on_rooftop,
                                group_intersection_id[g].identifier)) >= 2

-----------------------------------------------------------------------------
(* Properties of the Overhang Reconciler *)

\* the steps that follow the append step
Appended == pc \in {"address", "remove", "tilt", "registry", "done"}

RECURSIVE AreaInterOver(_, _)
AreaInterOver(rows, K) ==
    IF K = {} THEN 0
    ELSE LET k == CHOOSE j \in K : TRUE
         IN  rows[k].area_inter + AreaInterOver(rows, K \ {k})

\* installation inst is split into 70 on one rooftop and 30 off every rooftop
IsSplit7030(inst) ==
    /\ Cardinality(inst.geometry) = 2
    /\ \E p \in inst.geometry : p.area = 70 /\ Cardinality(p.cover) = 1
    /\ \E p \in inst.geometry : p.area = 30 /\ p.cover = {}

\* the overhang of identifier id was matched to a fragment of id, and no other
\* overhang was
OwnOverhangOnly(id) ==
    /\ \E k \in DOMAIN enriched : enriched[k].identifier_diff = id
    /\ \A k \in DOMAIN enriched :
          enriched[k].identifier = id <=> enriched[k].identifier_diff = id

\* C4 as claimed: for an installation split 70/30 on one rooftop the rows of the
\* installation have a total area_inter of 30 after reconciliation.
C4_GroupTotalIs30 ==
    Appended =>
        \A k \in DOMAIN raw_PV_installations_gdf :
            LET inst == raw_PV_installations_gdf[k]
                rows == raw_PV_installations_on_rooftop
            IN  IsSplit7030(inst) /\ OwnOverhangOnly(inst.identifier) =>
                    AreaInterOver(rows, RowsOf(rows, inst.identifier)) = 30

\* C4 amended: for an installation split 70/30 on one rooftop whose overhang is
\* matched to its own fragment (and no other overhang is), reconciliation leaves
\* two rows for the installation, the on-rooftop row with area_inter 70 and the
\* resolved overhang with area_inter 30, total 100: the overhang's row carries
\* its own area in place of the matched fragment's, and is added to the
\* on-rooftop row.
C4_GroupTotalIs100 ==
    Appended =>
        \A k \in DOMAIN raw_PV_installations_gdf :
            LET inst == raw_PV_installations_gdf[k]
                rows == raw_PV_installations_on_rooftop
                mine == RowsOf(rows, inst.identifier)
            IN  IsSplit7030(inst) /\ OwnOverhangOnly(inst.identifier) =>
                    /\ Cardinality(mine) = 2
                    /\ \E i \in mine : ~IsOverhang(rows[i]) /\ rows[i].area_inter = 70
                    /\ \E i \in mine : IsOverhang(rows[i]) /\ rows[i].area_inter = 30
                    /\ AreaInterOver(rows, mine) = 100

\* C4 witness: the Corrected Records hold a 70/30 installation matched to itself
C4_Witness ==
    /\ pc = "done"
    /\ \E k \in DOMAIN raw_PV_installations_gdf :
          /\ IsSplit7030(raw_PV_installations_gdf[k])
          /\ OwnOverhangOnly(raw_PV_installations_gdf[k].identifier)

\* the attributes a resolved overhang takes from the fragment it is matched to
Inherited ==
    {"identifier", "raw_area", "RoofTopID", "Tilt", "Azimuth", "Street",
     "StreetNumb", "PostalCode", "City"}

\* C5: every resolved overhang has the area_inter of its own area_diff (and its
\* own polygon) and the identifier, raw_area and rooftop attributes of the
\* on-rooftop fragment it was matched to; when there is exactly one on-rooftop
\* fragment and it has the overhang's identifier, that fragment is the match.
C5_ResolvedOverhang ==
    pc = "address" =>
        LET rows == raw_PV_installations_on_rooftop
            n == Len(rows) - Len(enriched)
        IN  \A k \in DOMAIN enriched :
                LET own == raw_overhanging_PV_installations[k]
                    resolved == rows[n + k]
                IN  /\ enriched[k].area_inter = own.area_diff
                    /\ resolved.area_inter = own.area_diff
                    /\ resolved.geometry = own.geometry_overhanging_polygon
                    /\ \E j \in 1..n :
                          /\ rows[j].geometry = enriched[k].geometry_intersected_polygon
                          /\ Centroid(rows[j].geometry) = enriched[k].centroid_intersect
                          /\ \A c \in Inherited : resolved[c] = rows[j][c]
                    /\ (n = 1 /\ rows[1].identifier = own.identifier_diff) =>
                          /\ enriched[k].geometry_intersected_polygon = rows[1].geometry
                          /\ enriched[k].checker

\* C5 witness: an overhang was resolved against the only on-rooftop fragment,
\* whose area differs from the overhang's
C5_Witness ==
    /\ pc = "address"
    /\ Len(enriched) = 1
    /\ Len(raw_PV_installations_on_rooftop) = 2
    /\ enriched[1].identifier_diff = raw_PV_installations_on_rooftop[1].identifier
    /\ raw_PV_installations_on_rooftop[1].area_inter # enriched[1].area_diff

-----------------------------------------------------------------------------
(* Properties of the Rooftop Overlay Engine and of the overhang filter *)

\* between the overlay and the append step
Overlaid == pc \in {"identify", "filter", "append"}

\* C6 as claimed: the on-rooftop rows of an installation sum to at most its
\* raw_area, whatever the rooftops.
C6_IntersectionWithinRawArea ==
    Overlaid =>
        \A k \in DOMAIN raw_PV_installations_gdf :
            LET inst == raw_PV_installations_gdf[k]
                rows == raw_PV_installations_on_rooftop
            IN  AreaInterOver(rows, RowsOf(rows, inst.identifier)) <= inst.raw_area

\* no part of the installation lies under more than one rooftop
NoOverlappingRooftops(inst) == \A p \in inst.geometry : Cardinality(p.cover) <= 1

\* C6 amended: the on-rooftop rows of an installation sum to at most its
\* raw_area provided no part of the installation lies under two rooftop
\* polygons that overlap one another.
C6_IntersectionWithinRawAreaIfDisjoint ==
    Overlaid =>
        \A k \in DOMAIN raw_PV_installations_gdf :
            LET inst == raw_PV_installations_gdf[k]
                rows == raw_PV_installations_on_rooftop
            IN  NoOverlappingRooftops(inst) =>
                    AreaInterOver(rows, RowsOf(rows, inst.identifier)) <= inst.raw_area

\* C6 witness: an installation lies on two rooftops that do not overlap
C6_Witness ==
    /\ Overlaid
    /\ \E k \in DOMAIN raw_PV_installations_gdf :
          /\ NoOverlappingRooftops(raw_PV_installations_gdf[k])
          /\ Cardinality(RowsOf(raw_PV_installations_on_rooftop,
                                raw_PV_installations_gdf[k].identifier)) = 2

\* installation inst overlaps no rooftop: its area_diff is its raw_area
FreeStanding(inst) == \A p \in inst.geometry : p.cover = {}

IdentifiersIn(rows) == {rows[k].identifier : k \in DOMAIN rows}

Untouched(rows, inst) == \A k \in DOMAIN rows : rows[k].geometry \cap inst.geometry = {}

\* C7: the identifier of a free-standing installation never appears among the
\* on-rooftop, candidate or Corrected Records, and no row of either registry
\* (nor any Corrected Record) holds any of its area.
C7_FreeStandingExcluded ==
    \A k \in DOMAIN raw_PV_installations_gdf :
        LET inst == raw_PV_installations_gdf[k]
        IN  FreeStanding(inst) =>
                /\ inst.identifier \notin IdentifiersIn(raw_PV_installations_on_rooftop)
                /\ inst.identifier \notin IdentifiersIn(corrected_PV_installations_on_rooftop)
                /\ Untouched(corrected_PV_installations_on_rooftop, inst)
                /\ Untouched(rooftop_registry, inst)
                /\ Untouched(address_registry, inst)

\* C7 witness: the registries were built for a free-standing installation next
\* to one that has an overhang
C7_Witness ==
    /\ pc = "done"
    /\ rooftop_registry # <<>>
    /\ address_registry # <<>>
    /\ \E k \in DOMAIN raw_PV_installations_gdf : FreeStanding(raw_PV_installations_gdf[k])

\* the four conditions on an off-rooftop remainder
ReachesMatch(row) ==
    /\ row.raw_area - row.area_diff > 0
    /\ row.identifier # NaN
    /\ row.identifier \in IdentifiersIn(raw_PV_installations_on_rooftop)
    /\ row.area_diff > 1

\* C8: the overhangs handed to the nearest-neighbour match are exactly the
\* off-rooftop remainders with raw_area - area_diff > 0, an identifier that is
\* not missing and occurs among the on-rooftop fragments, and area_diff > 1.
C8_FilterConditions ==
    pc = "append" =>
        LET passed == SelectSeq(raw_PV_installations_off_rooftop, ReachesMatch)
        IN  /\ Len(raw_overhanging_PV_installations) = Len(passed)
            /\ \A k \in DOMAIN passed :
                  /\ raw_overhanging_PV_installations[k].identifier = passed[k].identifier
                  /\ raw_overhanging_PV_installations[k].area_diff = passed[k].area_diff
                  /\ raw_overhanging_PV_installations[k].geometry_overhanging_polygon
                        = passed[k].geometry

\* C8 witness: a remainder of exactly 1 square metre that meets the other three
\* conditions was dropped while another remainder passed
C8_Witness ==
    /\ pc = "append"
    /\ Len(raw_overhanging_PV_installations) = 1
    /\ \E k \in DOMAIN raw_PV_installations_off_rooftop :
          LET row == raw_PV_installations_off_rooftop[k]
          IN  /\ row.area_diff = 1
              /\ row.identifier # NaN
              /\ row.identifier \in IdentifiersIn(raw_PV_installations_on_rooftop)
              /\ row.raw_area - row.area_diff > 0

-----------------------------------------------------------------------------
(* Properties of the Tilt Corrector and of the Registry Aggregator *)

RECURSIVE ColumnOver(_, _, _)
ColumnOver(rows, c, K) ==
    IF K = {} THEN 0
    ELSE LET k == CHOOSE j \in K : TRUE
         IN  rows[k][c] + ColumnOver(rows, c, K \ {k})

\* registry has one row per key occurring in column `by` of the records, and
\* its area_inter and area_tilted are the sums over the records of that key
OneRowPerKey(registry, records, by) ==
    LET keys == {records[k][by] : k \in DOMAIN records} \ {NaN}
    IN  /\ Len(registry) = Cardinality(keys)
        /\ {registry[g][by] : g \in DOMAIN registry} = keys
        /\ \A g \in DOMAIN registry :
              LET members == {k \in DOMAIN records : records[k][by] = registry[g][by]}
              IN  /\ registry[g].area_inter = ColumnOver(records, "area_inter", members)
                  /\ registry[g].area_tilted = ColumnOver(records, "area_tilted", members)

\* C10: the Rooftop Registry has exactly one row per RoofTopID occurring in the
\* Corrected Records and the Address Registry one per composed Street_Address;
\* each row's area_inter and area_tilted are the sums over the Corrected Records
\* of that key.
C10_OneRowPerKeyWithSums ==
    pc = "done" =>
        /\ OneRowPerKey(rooftop_registry, corrected_PV_installations_on_rooftop,
                        "RoofTopID")
        /\ OneRowPerKey(address_registry, corrected_PV_installations_on_rooftop,
                        "Street_Address")

\* C10 witness: both registries have two rows, and one rooftop row sums
\* several Corrected Records
C10_Witness ==
    /\ pc = "done"
    /\ Len(rooftop_registry) = 2
    /\ Len(address_registry) = 2
    /\ Len(corrected_PV_installations_on_rooftop) >= 3

-----------------------------------------------------------------------------
(* An installation wholly on one rooftop, through the full pipeline *)

\* the run has ended: the registries were built, or an exception ended it
Ended == pc \in {"done", "aborted"}

\* installation k lies wholly on rooftop r: all of it is under r, under no
\* other rooftop, and nothing of it is off the rooftops
WhollyOn(k, r) ==
    /\ raw_PV_polygons_gdf[k] # {}
    /\ \A p \in raw_PV_polygons_gdf[k] : p.cover = {r}

\* nothing else is recorded under the RoofTopID of rooftop r: no other
\* installation reaches a rooftop of that RoofTopID and no overhang was resolved
\* to one
AloneOn(k, r) ==
    /\ \A k2 \in (DOMAIN raw_PV_polygons_gdf) \ {k} :
          \A p \in raw_PV_polygons_gdf[k2] : \A r2 \in p.cover :
              rooftop_gdf[r2].RoofTopID # rooftop_gdf[r].RoofTopID
    /\ \A e \in DOMAIN enriched : enriched[e].RoofTopID # rooftop_gdf[r].RoofTopID

\* the Rooftop Registry has exactly one row for the RoofTopID of every rooftop
\* that carries one whole installation and nothing else, with that
\* installation's raw_area as area_inter
WholeInstallationsRegistered ==
    \A k \in DOMAIN raw_PV_polygons_gdf : \A r \in DOMAIN rooftop_gdf :
        (WhollyOn(k, r) /\ rooftop_gdf[r].RoofTopID # NaN /\ AloneOn(k, r)) =>
            \E g \in DOMAIN rooftop_registry :
                /\ {h \in DOMAIN rooftop_registry :
                        rooftop_registry[h].RoofTopID = rooftop_gdf[r].RoofTopID} = {g}
                /\ rooftop_registry[g].area_inter = raw_PV_installations_gdf[k].raw_area

\* C11: for an installation that lies wholly on a single rooftop with no
\* overhang, the run of the full pipeline ends with exactly one Rooftop Registry
\* row for that RoofTopID, whose area_inter is the installation's raw_area
\* (100 for raw_area 100).
C11_WholeInstallationRegistered == Ended => WholeInstallationsRegistered

\* the statement of C11 restricted to the runs in which the registries are built
C11_WholeInstallationRegisteredIfBuilt == pc = "done" => WholeInstallationsRegistered

\* a run in which the registries are built and a whole installation of
\* raw_area 100 stands alone on its rooftop
C11_BuiltCase ==
    /\ pc = "done"
    /\ \E k \in DOMAIN raw_PV_polygons_gdf : \E r \in DOMAIN rooftop_gdf :
          /\ WhollyOn(k, r) /\ rooftop_gdf[r].RoofTopID # NaN /\ AloneOn(k, r)
          /\ raw_PV_installations_gdf[k].raw_area = 100

-----------------------------------------------------------------------------
(* The nearest-neighbour match and the append step *)

\* the rooftop and installation attributes a resolved record takes over
Attributes == Columns \ {"geometry", "area_inter"}

\* record rec is attributed to a fragment of frags whose centroid is at minimal
\* distance from the point c among the centroids of all fragments
AtNearestFragment(rec, c, frags) ==
    \E j \in DOMAIN frags :
        /\ Project(rec, Attributes) = Project(frags[j], Attributes)
        /\ \A j2 \in DOMAIN frags :
              FracLE(Dist2(c, Centroid(frags[j].geometry)),
                     Dist2(c, Centroid(frags[j2].geometry)))

\* C12: the append step keeps every On-Rooftop Fragment and adds exactly one
\* resolved record per overhang that passed the filter, whatever its consistency
\* flag and its distance: the candidate set has (number of fragments) + (number
\* of filtered overhangs) rows, and the record of each overhang carries the
\* overhang's polygon and area and the attributes of a fragment whose centroid
\* has minimal Euclidean distance to the overhang's centroid among all fragment
\* centroids.
C12_OneRecordPerOverhangAtNearest ==
    [][(pc = "append" /\ pc' = "address") =>
        LET frags == raw_PV_installations_on_rooftop
            over  == raw_overhanging_PV_installations
            out   == raw_PV_installations_on_rooftop'
            n     == Len(frags)
        IN  /\ Len(out) = n + Len(over)
            /\ \A j \in 1..n : out[j] = frags[j]
            /\ \A k \in DOMAIN over :
                  /\ out[n + k].geometry = over[k].geometry_overhanging_polygon
                  /\ out[n + k].area_inter = over[k].area_diff
                  /\ AtNearestFragment(out[n + k], over[k].geometry, frags)]_vars

\* C12 witness: after the append step, an overhang matched to a fragment of
\* another installation (consistency flag false) is among the resolved records,
\* and some fragment is farther from it than the matched one
C12_Witness ==
    /\ pc = "address"
    /\ LET n == Len(raw_PV_installations_on_rooftop) - Len(enriched)
       IN  /\ n >= 2
           /\ \E k \in DOMAIN enriched :
                 /\ ~enriched[k].checker
                 /\ raw_PV_installations_on_rooftop[n + k].identifier
                       # enriched[k].identifier_diff
                 /\ \E j \in 1..n :
                       FracLT(enriched[k].dist_in_degrees,
                              Dist2(raw_overhanging_PV_installations[k].geometry,
                                    Centroid(raw_PV_installations_on_rooftop[j].geometry)))

-----------------------------------------------------------------------------
(* Area conservation between the Corrected Records and the two registries *)

\* the total area_inter over all rows
TotalAreaInter(rows) == ColumnOver(rows, "area_inter", DOMAIN rows)

\* the number of rows of the registry in which the record is counted
CountedIn(registry, record, by) ==
    Cardinality({g \in DOMAIN registry : registry[g][by] = record[by]})

AreaConserved ==
    LET records == corrected_PV_installations_on_rooftop
    IN  /\ \A k \in DOMAIN records :
              /\ CountedIn(rooftop_registry, records[k], "RoofTopID") = 1
              /\ CountedIn(address_registry, records[k], "Street_Address") = 1
        /\ TotalAreaInter(rooftop_registry) = TotalAreaInter(records)
        /\ TotalAreaInter(address_registry) = TotalAreaInter(records)

\* no Corrected Record lacks its RoofTopID or a component of its address
KeysPresent ==
    \A k \in DOMAIN corrected_PV_installations_on_rooftop :
        \A c \in {"RoofTopID", "Street", "StreetNumb", "PostalCode", "City"} :
            corrected_PV_installations_on_rooftop[k][c] # NaN

\* C13: whatever the Corrected Records are, records with a missing RoofTopID or
\* a missing Street, StreetNumber, PostalCode or City included, every Corrected
\* Record is counted in exactly one row of each registry, so the total
\* area_inter over the Rooftop Registry equals the total over the Address
\* Registry and the total over all Corrected Records.
C13_AreaConserved == pc = "done" => AreaConserved

\* the statement of C13 restricted to Corrected Records that all carry their
\* RoofTopID and a complete address
C13_AreaConservedIfKeysPresent == (pc = "done" /\ KeysPresent) => AreaConserved

\* registries built from several Corrected Records, all with their keys
C13_KeysPresentCase ==
    /\ pc = "done"
    /\ KeysPresent
    /\ Len(corrected_PV_installations_on_rooftop) >= 3
    /\ Len(rooftop_registry) = 2

====
